---- MODULE Spec2Model ----
(***************************************************************************)
(* A model of adal/authentication_parameters.py (the RFC6750 challenge     *)
(* parser and the operations derived from it) and of                       *)
(* adal/self_signed_jwt.py (the self-signed JWT assertion builder).        *)
(*                                                                         *)
(* Text is modelled as a sequence of characters.  In the challenge parser  *)
(* a character is a one-character string; in the JWT builder, where the    *)
(* byte values matter (base64), a character is its code point.             *)
(***************************************************************************)
EXTENDS Integers, Sequences, FiniteSets, TLC

VARIABLES
    \* parse_challenge / create_authentication_parameters_from_header
    written,            \* the pairs and spacing the challenge text was written from
    challenge,          \* the challenge header text handed in
    parseResult,        \* outcome of parse_challenge(challenge)
    headerResult,       \* outcome of create_authentication_parameters_from_header
    \* create_authentication_parameters_from_response
    response,           \* the response object handed in
    responseResult,     \* outcome of create_authentication_parameters_from_response
    \* create_authentication_parameters_from_url
    url,                \* the url argument
    callback,           \* the callback argument (callable or not)
    pc,                 \* position inside create_authentication_parameters_from_url
    challenge_url,      \* local: the resolved url
    httpResponse,       \* local: what requests.get returned
    parameters,         \* local: the parsed authentication parameters
    exc,                \* the exception in flight (the handler's `exp`)
    raised,             \* the exception raised by resolve / GET / parse, if any
    calls,              \* the invocations of the callback so far, in order
    callbackRaised,     \* whether some invocation of the callback raised
    propagated,         \* the exception that left the function, if any
    \* SelfSignedJwt
    thumbprint,         \* the thumbprint argument
    signed,             \* the string jws.sign returns
    method,             \* the SelfSignedJwt method invoked
    jwtResult,          \* outcome of that method
    signCalls           \* number of calls made to jws.sign

challengeVars == <<written, challenge, parseResult, headerResult>>
responseVars  == <<response, responseResult>>
urlVars       == <<url, callback, pc, challenge_url, httpResponse, parameters, exc,
                   raised, calls, callbackRaised, propagated>>
jwtVars       == <<thumbprint, signed, method, jwtResult, signCalls>>
vars          == <<challengeVars, responseVars, urlVars, jwtVars>>

-----------------------------------------------------------------------------
(* Values shared by the components *)

\* Python's None.  Text is a sequence of one-character strings (or of code
\* points), so this one-element sequence is no text.
None == <<"None">>

\* The outcome of an operation that has not run.
NoResult == [status |-> "none"]

\* An operation returned `v`.
Returned(v) == [status |-> "ok", value |-> v]

\* An operation raised an exception of class `type`; `what` tells the raise
\* statements of one class apart and `cites` is the value formatted into the
\* message (None when the message cites nothing).
Raised(type, what, cites) ==
    [status |-> "raise", error |-> [type |-> type, what |-> what, cites |-> cites]]

\* No exception.
NoError == [type |-> "None", what |-> "", cites |-> None]

\* None where AuthenticationParameters are expected.
NoParameters == [authorization_uri |-> None, resource |-> None]

\* The url argument when it is None.
NoneUrl == [kind |-> "None", has_geturl |-> FALSE, has_get_url |-> FALSE,
            get_url_raises |-> FALSE]

\* Python truthiness of a text-or-None value: `not x`.
Falsy(x) == x = None \/ x = <<>>

\* dict.get(key): the value, or None.
Get(d, key) == IF key \in DOMAIN d THEN d[key] ELSE None

\* d[key] = value
Put(d, key, value) ==
    [k \in DOMAIN d \cup {key} |-> IF k = key THEN value ELSE d[k]]

EmptyDict == [k \in {} |-> <<>>]

-----------------------------------------------------------------------------
(* parse_challenge: the three regular expressions *)

DQ == "\""

\* \s
IsWs(c) == c \in {" ", "\t", "\n", "\r", "\f"}

\* [^,\s="]
IsKeyChar(c) == ~IsWs(c) /\ c \notin {",", "=", DQ}

Bearer == <<"B", "e", "a", "r", "e", "r">>

AUTHORIZATION_URI ==
    <<"a", "u", "t", "h", "o", "r", "i", "z", "a", "t", "i", "o", "n", "_", "u", "r", "i">>

RESOURCE == <<"r", "e", "s", "o", "u", "r", "c", "e">>

\* The literal `lit` stands in s at position i.
HasLit(s, i, lit) ==
    /\ i + Len(lit) - 1 <= Len(s)
    /\ \A j \in 1..Len(lit) : s[i + j - 1] = lit[j]

\* \s* from position i: the first position not holding whitespace.
RECURSIVE SkipWs(_, _)
SkipWs(s, i) == IF i <= Len(s) /\ IsWs(s[i]) THEN SkipWs(s, i + 1) ELSE i

\* [^,\s="]+? from position i: the first position not holding a key character.
\* The character that follows the key in each expression is `=`, which is no
\* key character, so the lazy quantifier stops exactly there.
RECURSIVE SkipKey(_, _)
SkipKey(s, i) == IF i <= Len(s) /\ IsKeyChar(s[i]) THEN SkipKey(s, i + 1) ELSE i

\* [^"]*? from position i: the position of the next double quote, Len(s)+1
\* when there is none.
RECURSIVE SkipValue(_, _)
SkipValue(s, i) == IF i <= Len(s) /\ s[i] # DQ THEN SkipValue(s, i + 1) ELSE i

\* ([^,\s="]+?)="([^"]*?)" at position i: whether it matches, the two groups
\* and the position after the closing quote.
MatchPair(s, i) ==
    LET k == SkipKey(s, i)
        v == SkipValue(s, k + 2)
    IN  IF k > i /\ HasLit(s, k, <<"=", DQ>>) /\ v <= Len(s)
        THEN [ok |-> TRUE, key |-> SubSeq(s, i, k - 1),
              value |-> SubSeq(s, k + 2, v - 1), end |-> v + 1]
        ELSE [ok |-> FALSE, key |-> <<>>, value |-> <<>>, end |-> i]

\* ^\s*Bearer\s+ : the position after it, 0 when it does not match.
MatchBearer(s) ==
    LET b == SkipWs(s, 1)
        k == SkipWs(s, b + Len(Bearer))
    IN  IF HasLit(s, b, Bearer) /\ k > b + Len(Bearer) THEN k ELSE 0

\* (,\s*([^,\s="]+?)="([^"]*?)"\s*)*$ from position i, the preceding \s*
\* already consumed.  `$` also matches before a final newline, which the
\* preceding \s* consumes anyway.
RECURSIVE MatchOtherPairsToEnd(_, _)
MatchOtherPairsToEnd(s, i) ==
    IF i > Len(s) THEN TRUE
    ELSE IF s[i] # "," THEN FALSE
    ELSE LET p == MatchPair(s, SkipWs(s, i + 1))
         IN  p.ok /\ MatchOtherPairsToEnd(s, SkipWs(s, p.end))

\* bearer_challenge_structure_validation.search(challenge)
bearer_challenge_structure_validation(s) ==
    LET k == MatchBearer(s)
        p == MatchPair(s, k)
    IN  k > 0 /\ p.ok /\ MatchOtherPairsToEnd(s, SkipWs(s, p.end))

\* first_key_value_pair_regex.search(challenge): the match (ok, key, value).
first_key_value_pair_regex(s) ==
    LET k == MatchBearer(s)
    IN  IF k > 0 THEN MatchPair(s, k) ELSE MatchPair(s, Len(s) + 1)

\* (?:,\s*([^,\s="]+?)="([^"]*?)"\s*) tried at position i.
MatchOtherPair(s, i) ==
    IF i <= Len(s) /\ s[i] = ","
    THEN LET p == MatchPair(s, SkipWs(s, i + 1))
         IN  [p EXCEPT !.end = SkipWs(s, p.end)]
    ELSE [ok |-> FALSE, key |-> <<>>, value |-> <<>>, end |-> i]

\* all_other_key_value_pair_regex.finditer(challenge) from position i: the
\* matches in order.  The scan tries every position of the text from the
\* left, takes the first match and goes on after its end.
RECURSIVE all_other_key_value_pair_regex(_, _)
all_other_key_value_pair_regex(s, i) ==
    IF i > Len(s) THEN <<>>
    ELSE LET m == MatchOtherPair(s, i)
         IN  IF m.ok
             THEN <<m>> \o all_other_key_value_pair_regex(s, m.end)
             ELSE all_other_key_value_pair_regex(s, i + 1)

\* challenge_parameters[match.group(1)] = match.group(2), for each match in order.
RECURSIVE PutAll(_, _)
PutAll(d, matches) ==
    IF matches = <<>> THEN d
    ELSE PutAll(Put(d, Head(matches).key, Head(matches).value), Tail(matches))

parse_challenge(s) ==
    IF ~bearer_challenge_structure_validation(s)
    THEN Raised("ValueError", "not parseable", None)
    ELSE LET first == first_key_value_pair_regex(s)
             d1    == IF first.ok THEN Put(EmptyDict, first.key, first.value)
                      ELSE EmptyDict
         IN  Returned(PutAll(d1, all_other_key_value_pair_regex(s, 1)))

-----------------------------------------------------------------------------
(* create_authentication_parameters_from_header / _from_response *)

AuthenticationParameters(authorization_uri, resource) ==
    [authorization_uri |-> authorization_uri, resource |-> resource]

\* argument.validate_string_param(challenge, 'challenge'): the challenge must
\* be a non-empty string.
validate_string_param(param, name) ==
    IF Falsy(param) THEN Raised("ArgumentError", name, None) ELSE Returned(None)

\* The same without the check of authorization_uri.
create_authentication_parameters_from_header_unchecked(ch) ==
    LET arg    == validate_string_param(ch, "challenge")
        parsed == parse_challenge(ch)
    IN  IF arg.status = "raise" THEN arg
        ELSE IF parsed.status = "raise" THEN parsed
        ELSE Returned(AuthenticationParameters(Get(parsed.value, AUTHORIZATION_URI),
                                               Get(parsed.value, RESOURCE)))

create_authentication_parameters_from_header(ch) ==
    LET arg    == validate_string_param(ch, "challenge")
        parsed == parse_challenge(ch)
    IN  IF arg.status = "raise" THEN arg
        ELSE IF parsed.status = "raise" THEN parsed
        ELSE LET authorization_uri == Get(parsed.value, AUTHORIZATION_URI)
             IN  IF Falsy(authorization_uri)
                 THEN Raised("ValueError", "authorization_uri", None)
                 ELSE Returned(AuthenticationParameters(authorization_uri,
                                                        Get(parsed.value, RESOURCE)))

WWW_AUTHENTICATE_HEADER == "www-authenticate"

\* HttpError.UNAUTHORIZED
UNAUTHORIZED == 401

\* A response object: `present` is false for None; has_status_code and
\* has_headers are hasattr(response, ...); status_code is an integer (0 when
\* the attribute is missing); headers maps header names to text.
NoResponse ==
    [present |-> FALSE, has_status_code |-> FALSE, status_code |-> 0,
     has_headers |-> FALSE, headers |-> EmptyDict]

create_authentication_parameters_from_response(r) ==
    IF ~r.present
    THEN Raised("AttributeError", "response", None)
    ELSE IF ~r.has_status_code \/ r.status_code = 0
    THEN Raised("AttributeError", "status_code", None)
    ELSE IF ~r.has_headers \/ DOMAIN r.headers = {}
    THEN Raised("AttributeError", "headers", None)
    ELSE IF r.status_code # UNAUTHORIZED
    THEN Raised("ValueError", "status_code", r.status_code)
    ELSE LET ch == Get(r.headers, WWW_AUTHENTICATE_HEADER)
         IN  IF Falsy(ch)
             THEN Raised("ValueError", "www-authenticate", None)
             ELSE create_authentication_parameters_from_header(ch)

-----------------------------------------------------------------------------
(* The inputs of the challenge operations *)

\* The largest number of key="value" pairs in a challenge.
MaxPairs == 2

Keys == {AUTHORIZATION_URI, RESOURCE, <<"k">>}

\* Values are free of the double quote; they may hold commas, `=` and spaces.
Values == {<<>>, <<"v">>, <<"x", ",", " ", "y", "=", "z">>, <<",", "k", "=">>}

\* The whitespace written around the separators.
Gaps == {<<>>, <<"\t", " ">>}

\* What was done to the text after it was written from the pairs: nothing,
\* its last character cut, a comma appended, or another scheme.
Damages == {"none", "cut", "comma", "basic"}

PairSeqs == UNION {[1..n -> Keys \X Values] : n \in 1..MaxPairs}

\* No text at all.
EmptyWriting == [pairs |-> <<>>, gap |-> <<>>, damage |-> "empty"]

Writings == [pairs : PairSeqs, gap : Gaps, damage : Damages] \cup {EmptyWriting}

\* key="value"
RenderPair(p) == p[1] \o <<"=", DQ>> \o p[2] \o <<DQ>>

RECURSIVE RenderOthers(_, _, _)
RenderOthers(pairs, i, gap) ==
    IF i > Len(pairs) THEN <<>>
    ELSE gap \o <<",">> \o gap \o RenderPair(pairs[i]) \o RenderOthers(pairs, i + 1, gap)

\* The challenge text of a writing.
Render(w) ==
    LET scheme == IF w.damage = "basic" THEN <<"B", "a", "s", "i", "c">> ELSE Bearer
        text   == w.gap \o scheme \o <<" ">> \o w.gap \o RenderPair(w.pairs[1])
                  \o RenderOthers(w.pairs, 2, w.gap) \o w.gap
    IN  CASE w.damage = "empty" -> <<>>
          [] w.damage = "cut"   -> SubSeq(text, 1, Len(text) - Len(w.gap) - 1)
          [] w.damage = "comma" -> text \o <<",">>
          [] OTHER              -> text

\* The response objects tried for a challenge text.
HeaderDicts(ch) ==
    { EmptyDict,
      [h \in {"content-type"} |-> <<"t">>],
      [h \in {WWW_AUTHENTICATE_HEADER} |-> ch],
      [h \in {WWW_AUTHENTICATE_HEADER} |-> <<>>],
      [h \in {WWW_AUTHENTICATE_HEADER, "content-type"} |->
          IF h = WWW_AUTHENTICATE_HEADER THEN ch ELSE <<"t">>] }

StatusCodes == {0, 200, UNAUTHORIZED}

Responses(ch) ==
    {NoResponse}
    \cup {[NoResponse EXCEPT !.present = TRUE]}
    \cup {[present |-> TRUE, has_status_code |-> TRUE, status_code |-> c,
           has_headers |-> FALSE, headers |-> EmptyDict] : c \in StatusCodes}
    \cup {[present |-> TRUE, has_status_code |-> TRUE, status_code |-> c,
           has_headers |-> TRUE, headers |-> h] : c \in StatusCodes, h \in HeaderDicts(ch)}

\* The challenge that a plain 401 response carries.
Challenge401(ch) ==
    [present |-> TRUE, has_status_code |-> TRUE, status_code |-> UNAUTHORIZED,
     has_headers |-> TRUE, headers |-> [h \in {WWW_AUTHENTICATE_HEADER} |-> ch]]


-----------------------------------------------------------------------------
(* create_authentication_parameters_from_url *)

\* The url argument: a str, None, or an object that may have the attributes
\* geturl and get_url; get_url() returns the url text or raises.
Urls ==
    {[kind |-> "str", has_geturl |-> FALSE, has_get_url |-> FALSE,
      get_url_raises |-> FALSE], NoneUrl}
    \cup {u \in [kind : {"object"}, has_geturl : BOOLEAN, has_get_url : BOOLEAN,
                 get_url_raises : BOOLEAN] : u.get_url_raises => u.has_get_url}

\* The text of a url.
UrlText == <<"u">>

\* What requests.get and the callback raise.
GetError      == [type |-> "ConnectionError", what |-> "get", cites |-> None]
GetUrlError   == [type |-> "Exception", what |-> "get_url", cites |-> None]
CallbackError == [type |-> "Exception", what |-> "callback", cites |-> None]

\* argument.validate_callback_type(callback): the callback must be callable.
validate_callback_type(cb) ==
    IF cb.callable THEN NoError
    ELSE [type |-> "ArgumentError", what |-> "callback", cites |-> None]

\* validate_url_object(url)
validate_url_object(u) ==
    IF u.kind = "None" \/ ~u.has_geturl
    THEN [type |-> "AttributeError", what |-> "url", cites |-> None]
    ELSE NoError

\* One invocation callback(error, result); NoError and NoParameters stand
\* for a None argument.
Invocation(error, result) == [error |-> error, result |-> result]

\* The entry of the function: validate_callback_type, before the try.
Call ==
    /\ pc = "idle"
    /\ IF validate_callback_type(callback) # NoError
       THEN /\ propagated' = validate_callback_type(callback)
            /\ pc' = "done"
       ELSE /\ pc' = "resolve"
            /\ UNCHANGED propagated
    /\ UNCHANGED <<url, callback, challenge_url, httpResponse, parameters, exc, raised,
                   calls, callbackRaised, challengeVars, responseVars, jwtVars>>

\* The exception e is raised outside every try: it leaves the function (what
\* resolving the url would do were it written before the try).
RaiseOutsideTry(e) ==
    /\ raised' = e
    /\ propagated' = e
    /\ pc' = "done"
    /\ UNCHANGED exc

\* The exception e is raised inside the outer try and outside the inner ones.
RaiseInTry(e) ==
    /\ raised' = e
    /\ exc' = e
    /\ pc' = "except"
    /\ UNCHANGED propagated

\* if isinstance(url, str): challenge_url = url
\* else: validate_url_object(url); challenge_url = url.get_url()
ResolvedUrl(u) ==
    IF u.kind = "str" THEN Returned(UrlText)
    ELSE IF validate_url_object(u) # NoError
    THEN [status |-> "raise", error |-> validate_url_object(u)]
    ELSE IF ~u.has_get_url
    THEN Raised("AttributeError", "get_url", None)
    ELSE IF u.get_url_raises
    THEN [status |-> "raise", error |-> GetUrlError]
    ELSE Returned(UrlText)

ResolveUrl ==
    /\ pc = "resolve"
    /\ IF ResolvedUrl(url).status = "ok"
       THEN /\ challenge_url' = ResolvedUrl(url).value
            /\ pc' = "get"
            /\ UNCHANGED <<raised, exc, propagated>>
       ELSE /\ RaiseInTry(ResolvedUrl(url).error)
            /\ UNCHANGED challenge_url
    /\ UNCHANGED <<url, callback, httpResponse, parameters, calls, callbackRaised,
                   challengeVars, responseVars, jwtVars>>

\* The challenge texts that the responses of requests.get carry.
GetChallenges ==
    { Render([pairs |-> <<<<AUTHORIZATION_URI, <<"v">>>>, <<RESOURCE, <<"v">>>>>>,
              gap |-> <<>>, damage |-> "none"]),
      Render([pairs |-> <<<<RESOURCE, <<"v">>>>>>, gap |-> <<>>, damage |-> "none"]),
      Render([pairs |-> <<<<AUTHORIZATION_URI, <<"v">>>>>>, gap |-> <<>>,
              damage |-> "cut"]) }

\* What requests.get returns.  The call returns a response object, never None.
GetResponses == UNION {Responses(ch) \ {NoResponse} : ch \in GetChallenges}

\* response = requests.get(challenge_url, headers=options['headers'])
HttpGet ==
    /\ pc = "get"
    /\ \/ \E r \in GetResponses :
            /\ httpResponse' = r
            /\ pc' = "parse"
            /\ UNCHANGED <<raised, exc>>
       \/ /\ raised' = GetError
          /\ exc' = GetError
          /\ pc' = "get_except"
          /\ UNCHANGED httpResponse
    /\ UNCHANGED <<url, callback, challenge_url, parameters, calls, callbackRaised,
                   propagated, challengeVars, responseVars, jwtVars>>

\* parameters = create_authentication_parameters_from_response(response)
ParseResponse ==
    /\ pc = "parse"
    /\ LET r == create_authentication_parameters_from_response(httpResponse)
       IN  IF r.status = "ok"
           THEN /\ parameters' = r.value
                /\ pc' = "deliver"
                /\ UNCHANGED <<raised, exc>>
           ELSE /\ raised' = r.error
                /\ exc' = r.error
                /\ pc' = "parse_except"
                /\ UNCHANGED parameters
    /\ UNCHANGED <<url, callback, challenge_url, httpResponse, calls, callbackRaised,
                   propagated, challengeVars, responseVars, jwtVars>>

\* The callback is invoked inside the outer try: it returns, and the function
\* returns, or it raises, and the outer handler takes the exception.
InvokeInTry(error, result) ==
    /\ calls' = Append(calls, Invocation(error, result))
    /\ \/ /\ pc' = "done"
          /\ UNCHANGED <<exc, callbackRaised>>
       \/ /\ pc' = "except"
          /\ exc' = CallbackError
          /\ callbackRaised' = TRUE
    /\ UNCHANGED propagated

\* The callback is invoked inside the outer handler: it returns, or it
\* raises and the exception leaves the function.
InvokeInHandler(error, result) ==
    /\ calls' = Append(calls, Invocation(error, result))
    /\ pc' = "done"
    /\ \/ UNCHANGED <<propagated, callbackRaised>>
       \/ /\ propagated' = CallbackError
          /\ callbackRaised' = TRUE
    /\ UNCHANGED exc

\* except Exception as exp: logger.error(...); callback(exp, None); return
\* (the handler of requests.get)
GetFailed ==
    /\ pc = "get_except"
    /\ InvokeInTry(exc, NoParameters)
    /\ UNCHANGED <<url, callback, challenge_url, httpResponse, parameters, raised,
                   challengeVars, responseVars, jwtVars>>

\* except Exception as exp: logger.error(...); callback(exp, None); return
\* (the handler of create_authentication_parameters_from_response)
ParseFailed ==
    /\ pc = "parse_except"
    /\ InvokeInTry(exc, NoParameters)
    /\ UNCHANGED <<url, callback, challenge_url, httpResponse, parameters, raised,
                   challengeVars, responseVars, jwtVars>>

\* callback(None, parameters)
Deliver ==
    /\ pc = "deliver"
    /\ InvokeInTry(NoError, parameters)
    /\ UNCHANGED <<url, callback, challenge_url, httpResponse, parameters, raised,
                   challengeVars, responseVars, jwtVars>>

\* except Exception as exp: callback(exp, None)   (the outer handler)
OuterExcept ==
    /\ pc = "except"
    /\ InvokeInHandler(exc, NoParameters)
    /\ UNCHANGED <<url, callback, challenge_url, httpResponse, parameters, raised,
                   challengeVars, responseVars, jwtVars>>

-----------------------------------------------------------------------------
(* SelfSignedJwt.  The module is Python 2 code (base64.b64encode is handed a *)
(* str, 128/8*2 is used as a length), so a str is a byte string, the        *)
(* pattern "^[a-f\d]*$" is a byte pattern whose \d is [0-9], and a unicode  *)
(* thumbprint is encoded as ASCII where bytes are needed.  A character is   *)
(* its code point.                                                         *)

\* 128/8*2
NumCharIn128BitHexString == 32

\* 160/8*2
numCharIn160BitHexString == 40

Colon   == 58
Space   == 32
Newline == 10
Dot     == 46

\* str.lower(), on the characters of the inputs
Lower(c) == IF c \in 65..90 THEN c + 32 ELSE c

LowerText(s) == [i \in 1..Len(s) |-> Lower(s[i])]

\* s.replace(c, '')
Remove(s, c) == SelectSeq(s, LAMBDA x : x # c)

\* [a-f\d]
InThumbprintClass(c) == c \in 97..102 \/ c \in 48..57

\* re.search("^[a-f\d]*$", s): the class run starts at the start of the text,
\* and `$` matches at the end of the text and before a newline that ends it.
ThumbprintRegEx(s) ==
    \/ \A i \in 1..Len(s) : InThumbprintClass(s[i])
    \/ /\ Len(s) > 0
       /\ s[Len(s)] = Newline
       /\ \A i \in 1..(Len(s) - 1) : InThumbprintClass(s[i])

_raise_on_invalid_thumbprint(t) ==
    IF \/ Len(t) \notin {NumCharIn128BitHexString, numCharIn160BitHexString}
       \/ ~ThumbprintRegEx(t)
    THEN Raised("Error", "thumbprint", None)
    ELSE Returned(None)

_reduce_thumbprint(t) ==
    LET canonical == Remove(Remove(LowerText(t), Space), Colon)
        checked   == _raise_on_invalid_thumbprint(canonical)
    IN  IF checked.status = "raise" THEN checked ELSE Returned(canonical)

\* The base64 alphabet: the character of a 6-bit value.
B64Char(v) ==
    IF v < 26 THEN 65 + v
    ELSE IF v < 52 THEN 97 + (v - 26)
    ELSE IF v < 62 THEN 48 + (v - 52)
    ELSE IF v = 62 THEN 43 ELSE 47

\* base64.b64encode(bytes)
RECURSIVE b64encode(_)
b64encode(b) ==
    IF Len(b) = 0 THEN <<>>
    ELSE IF Len(b) = 1
    THEN <<B64Char(b[1] \div 4), B64Char((b[1] % 4) * 16), 61, 61>>
    ELSE IF Len(b) = 2
    THEN <<B64Char(b[1] \div 4), B64Char((b[1] % 4) * 16 + b[2] \div 16),
           B64Char((b[2] % 16) * 4), 61>>
    ELSE <<B64Char(b[1] \div 4), B64Char((b[1] % 4) * 16 + b[2] \div 16),
           B64Char((b[2] % 16) * 4 + b[3] \div 64), B64Char(b[3] % 64)>>
         \o b64encode(SubSeq(b, 4, Len(b)))

\* util.convert_regular_to_urlsafe_b64encoded_string: + becomes -, / becomes
\* _, the padding is dropped.
convert_regular_to_urlsafe_b64encoded_string(s) ==
    LET unpadded == Remove(s, 61)
    IN  [i \in 1..Len(unpadded) |->
            IF unpadded[i] = 43 THEN 45
            ELSE IF unpadded[i] = 47 THEN 95
            ELSE unpadded[i]]

_create_x5t_value(t) ==
    LET hex_str == Remove(Remove(t, Colon), Space)
    IN  IF \E i \in 1..Len(hex_str) : hex_str[i] > 127
        THEN Raised("UnicodeEncodeError", "b64encode", None)
        ELSE Returned(convert_regular_to_urlsafe_b64encoded_string(b64encode(hex_str)))

\* jwt.split('.')
RECURSIVE split(_, _)
split(s, sep) ==
    IF \A i \in 1..Len(s) : s[i] # sep THEN <<s>>
    ELSE LET k == CHOOSE i \in 1..Len(s) :
                      s[i] = sep /\ \A j \in 1..(i - 1) : s[j] # sep
         IN  <<SubSeq(s, 1, k - 1)>> \o split(SubSeq(s, k + 1, Len(s)), sep)

\* segments = jwt.split('.'); if len(seqments) < 3 or not segments[2]: raise ...
\* The name `seqments` is bound nowhere: evaluating it raises NameError before
\* anything is compared, whatever the segments are.
_raise_on_invalid_jwt_signature(jwt) ==
    LET segments == split(jwt, Dot)
    IN  Raised("NameError", "seqments", None)

\* jwt = jws.sign(header, payload, certificate);
\* self._raise_on_invalid_jwt_signature(jwt); return jwt
_sign_jwt(jwt) ==
    LET checked == _raise_on_invalid_jwt_signature(jwt)
    IN  IF checked.status = "raise" THEN checked ELSE Returned(jwt)

\* def create(certificate, thumbprint): the parameters the method declares.
CreateParameters == <<"certificate", "thumbprint">>

\* builder.create(certificate, thumbprint): the arguments of the bound call,
\* the instance first.
BoundArguments == <<"builder", "certificate", "thumbprint">>

\* The call binds three arguments to two parameters and raises TypeError; were
\* the two arguments bound without the instance, the first statement would
\* read the unbound name `self`.  Either way no statement of the body that
\* touches the thumbprint or the signing primitive runs.
create ==
    IF Len(BoundArguments) # Len(CreateParameters)
    THEN Raised("TypeError", "create", None)
    ELSE Raised("NameError", "self", None)

\* The thumbprints tried: n characters `a`, the character c at position p and
\* the character e at the end.
MaxThumbprintLen == 42

ThumbprintChars == {97, 102, 70, 48, 57, 103, Colon, Space, Newline, 1635}

Thumbprint(n, p, c, e) ==
    [i \in 1..n |-> IF i = n THEN e ELSE IF i = p THEN c ELSE 97]

Thumbprints ==
    {<<>>} \cup
    {Thumbprint(n, p, c, e) :
        n \in 1..MaxThumbprintLen, p \in 1..MaxThumbprintLen,
        c \in ThumbprintChars, e \in {97, Newline}}

\* The strings jws.sign returns: `x` and `.` in every arrangement.
MaxSignedLen == 5

SignedStrings == UNION {[1..n -> {120, Dot}] : n \in 0..MaxSignedLen}

ThreeSegments == <<120, Dot, 120, Dot, 120>>

ReduceThumbprint ==
    /\ method = "none"
    /\ method' = "_reduce_thumbprint"
    /\ jwtResult' = _reduce_thumbprint(thumbprint)
    /\ UNCHANGED <<thumbprint, signed, signCalls, challengeVars, responseVars, urlVars>>

CreateX5tValue ==
    /\ method = "none"
    /\ method' = "_create_x5t_value"
    /\ jwtResult' = _create_x5t_value(thumbprint)
    /\ UNCHANGED <<thumbprint, signed, signCalls, challengeVars, responseVars, urlVars>>

SignJwt ==
    /\ method = "none"
    /\ method' = "_sign_jwt"
    /\ signCalls' = signCalls + 1
    /\ jwtResult' = _sign_jwt(signed)
    /\ UNCHANGED <<thumbprint, signed, challengeVars, responseVars, urlVars>>

Create ==
    /\ method = "none"
    /\ method' = "create"
    /\ jwtResult' = create
    /\ UNCHANGED <<thumbprint, signed, signCalls, challengeVars, responseVars, urlVars>>

-----------------------------------------------------------------------------
(* The components that a specification leaves alone *)

ChallengeIdle ==
    /\ written = EmptyWriting
    /\ challenge = <<>>
    /\ parseResult = NoResult
    /\ headerResult = NoResult

ResponseIdle ==
    /\ response = NoResponse
    /\ responseResult = NoResult

UrlIdle ==
    /\ url = NoneUrl
    /\ callback = [callable |-> FALSE]
    /\ pc = "idle"
    /\ challenge_url = None
    /\ httpResponse = NoResponse
    /\ parameters = NoParameters
    /\ exc = NoError
    /\ raised = NoError
    /\ calls = <<>>
    /\ callbackRaised = FALSE
    /\ propagated = NoError

JwtIdle ==
    /\ thumbprint = <<>>
    /\ signed = <<>>
    /\ method = "none"
    /\ jwtResult = NoResult
    /\ signCalls = 0

-----------------------------------------------------------------------------
(* Spec: the challenge operations applied to challenge texts and responses *)

\* The writings whose text is also tried inside every response object.
InResponses(w) == Len(w.pairs) <= 1 /\ w.gap = <<>>

Init ==
    /\ written \in Writings
    /\ challenge = Render(written)
    /\ parseResult = NoResult
    /\ headerResult = NoResult
    /\ response \in IF InResponses(written) THEN Responses(challenge)
                    ELSE {Challenge401(challenge)}
    /\ responseResult = NoResult
    /\ UrlIdle
    /\ JwtIdle

ParseChallenge ==
    /\ parseResult = NoResult
    /\ parseResult' = parse_challenge(challenge)
    /\ UNCHANGED <<written, challenge, headerResult, responseVars, urlVars, jwtVars>>

CreateFromHeader ==
    /\ headerResult = NoResult
    /\ headerResult' = create_authentication_parameters_from_header(challenge)
    /\ UNCHANGED <<written, challenge, parseResult, responseVars, urlVars, jwtVars>>

CreateFromResponse ==
    /\ responseResult = NoResult
    /\ responseResult' = create_authentication_parameters_from_response(response)
    /\ UNCHANGED <<response, challengeVars, urlVars, jwtVars>>

Next == ParseChallenge \/ CreateFromHeader \/ CreateFromResponse

Spec == Init /\ [][Next]_vars


-----------------------------------------------------------------------------
(* Claims about the challenge operations, checked under Spec *)

\* The challenge text is exactly what the grammar of the challenge derives
\* from written.pairs.
WellFormed == written.damage = "none"

DistinctKeys ==
    \A i, j \in DOMAIN written.pairs :
        i # j => written.pairs[i][1] # written.pairs[j][1]

\* The right-most pair of the challenge that has key k.
LastWith(k) ==
    CHOOSE i \in DOMAIN written.pairs :
        /\ written.pairs[i][1] = k
        /\ \A j \in DOMAIN written.pairs : written.pairs[j][1] = k => j <= i

\* The mapping the grammar reads from the challenge.
GrammarMapping ==
    [k \in {written.pairs[i][1] : i \in DOMAIN written.pairs} |->
        written.pairs[LastWith(k)][2]]

\* C3: for every grammar-valid challenge with distinct keys, whose values may
\* hold commas, `=` and whitespace, parse_challenge returns exactly the
\* mapping from each key to its value: no entry missing, added or altered.
C3_ParseReturnsExactMapping ==
    (parseResult # NoResult /\ WellFormed /\ DistinctKeys)
        => parseResult = Returned(GrammarMapping)

\* C10: for every grammar-valid challenge in which a key occurs more than
\* once, parse_challenge maps each key to the value of its right-most
\* occurrence.
C10_LastOccurrenceWins ==
    (parseResult # NoResult /\ WellFormed /\ ~DistinctKeys)
        => /\ parseResult.status = "ok"
           /\ \A i \in DOMAIN written.pairs :
                 Get(parseResult.value, written.pairs[i][1])
                     = written.pairs[LastWith(written.pairs[i][1])][2]

\* C4: create_authentication_parameters_from_header returns parameters only
\* when the parsed challenge holds a non-empty authorization_uri and raises
\* ValueError when it is absent or empty; resource, present or not, is passed
\* on and decides nothing.  Every AuthenticationParameters returned from a
\* header or from a response has a non-empty authorization_uri.
C4_AuthorizationUriRequired ==
    /\ (headerResult # NoResult /\ parseResult.status = "ok") =>
          LET uri == Get(parseResult.value, AUTHORIZATION_URI)
          IN  IF Falsy(uri)
              THEN headerResult = Raised("ValueError", "authorization_uri", None)
              ELSE headerResult = Returned(AuthenticationParameters(
                                      uri, Get(parseResult.value, RESOURCE)))
    /\ headerResult.status = "ok" => ~Falsy(headerResult.value.authorization_uri)
    /\ responseResult.status = "ok" => ~Falsy(responseResult.value.authorization_uri)

\* A header without resource was accepted, from the header and from a response.
C4_Witness ==
    /\ parseResult.status = "ok"
    /\ headerResult.status = "ok"
    /\ headerResult.value.resource = None
    /\ responseResult.status = "ok"

\* The status codes HTTP defines.
HttpStatusCodes == 100..599

\* C5: for every response that exposes a status code and a header mapping,
\* create_authentication_parameters_from_response raises ValueError citing
\* the status code when the code is not 401, and raises ValueError when the
\* code is 401 and the mapping has no non-empty WWW-Authenticate entry,
\* whatever else the mapping holds.
C5_ProtocolErrorsAreValueErrors ==
    ( /\ responseResult # NoResult
      /\ response.present
      /\ response.has_status_code
      /\ response.status_code \in HttpStatusCodes
      /\ response.has_headers )
    => /\ response.status_code # UNAUTHORIZED =>
            responseResult = Raised("ValueError", "status_code", response.status_code)
       /\ ( /\ response.status_code = UNAUTHORIZED
            /\ Falsy(Get(response.headers, WWW_AUTHENTICATE_HEADER)) ) =>
            /\ responseResult.status = "raise"
            /\ responseResult.error.type = "ValueError"


-----------------------------------------------------------------------------
(* SpecUrl: create_authentication_parameters_from_url, step by step *)

InitUrl ==
    /\ url \in Urls
    /\ callback \in [callable : BOOLEAN]
    /\ pc = "idle"
    /\ challenge_url = None
    /\ httpResponse = NoResponse
    /\ parameters = NoParameters
    /\ exc = NoError
    /\ raised = NoError
    /\ calls = <<>>
    /\ callbackRaised = FALSE
    /\ propagated = NoError
    /\ ChallengeIdle
    /\ ResponseIdle
    /\ JwtIdle

NextUrl ==
    \/ Call
    \/ ResolveUrl
    \/ HttpGet
    \/ ParseResponse
    \/ GetFailed
    \/ ParseFailed
    \/ Deliver
    \/ OuterExcept

SpecUrl == InitUrl /\ [][NextUrl]_vars

\* C1: with a callable callback, whatever the url, the GET, the parsing and
\* the callback do (a callback that raises included), the callback has been
\* invoked exactly once when the call is over: as callback(error, None) or as
\* callback(None, parameters), never both and never neither.
C1_CallbackExactlyOnce ==
    (pc = "done" /\ callback.callable) =>
        /\ Len(calls) = 1
        /\ \/ calls[1].error # NoError /\ calls[1].result = NoParameters
           \/ calls[1].error = NoError /\ calls[1].result # NoParameters

-----------------------------------------------------------------------------
(* SpecJwt: the methods of SelfSignedJwt applied to thumbprints and to the  *)
(* strings the signing primitive returns                                    *)

InitJwt ==
    /\ \/ thumbprint \in Thumbprints /\ signed = ThreeSegments
       \/ /\ thumbprint \in {Thumbprint(n, 1, 97, 97) :
                                n \in {NumCharIn128BitHexString - 1,
                                       NumCharIn128BitHexString,
                                       numCharIn160BitHexString}}
          /\ signed \in SignedStrings
    /\ method = "none"
    /\ jwtResult = NoResult
    /\ signCalls = 0
    /\ ChallengeIdle
    /\ ResponseIdle
    /\ UrlIdle

NextJwt == ReduceThumbprint \/ CreateX5tValue \/ SignJwt \/ Create

SpecJwt == InitJwt /\ [][NextJwt]_vars

\* normalize(t): t lowercased, every ':' and space removed.
Normalized == Remove(Remove(LowerText(thumbprint), Colon), Space)

\* [0-9a-f]
IsHexDigit(c) == c \in 48..57 \/ c \in 97..102

\* 32 or 40 hexadecimal digits.
IsHexThumbprint(t) ==
    /\ Len(t) \in {32, 40}
    /\ \A i \in 1..Len(t) : IsHexDigit(t[i])

\* C6: the thumbprint check accepts t exactly when normalize(t) has 32 or 40
\* characters, every one of them in [0-9a-f]; anything else (a newline or a
\* non-ASCII digit included) is rejected with an error.
C6_ThumbprintAcceptedIffHex ==
    method = "_reduce_thumbprint" =>
        IF IsHexThumbprint(Normalized)
        THEN jwtResult = Returned(Normalized)
        ELSE jwtResult.status = "raise"

\* The value of a hexadecimal digit.
HexValue(c) == IF c \in 48..57 THEN c - 48 ELSE c - 87

\* The bytes that the hexadecimal text h represents.
HexBytes(h) ==
    [i \in 1..(Len(h) \div 2) |-> 16 * HexValue(h[2 * i - 1]) + HexValue(h[2 * i])]

\* C8: for every accepted normalized thumbprint h, x5t is the URL-safe
\* unpadded base64 encoding of the bytes h represents, not of the text of h.
C8_X5tEncodesThumbprintBytes ==
    (method = "_create_x5t_value" /\ IsHexThumbprint(thumbprint)) =>
        jwtResult = Returned(convert_regular_to_urlsafe_b64encoded_string(
                                 b64encode(HexBytes(thumbprint))))

\* The signed string has at least 3 segments and a non-empty third one.
WellSigned(jwt) == Len(split(jwt, Dot)) >= 3 /\ split(jwt, Dot)[3] # <<>>

\* C7: with a valid thumbprint, create returns the string of the signing
\* primitive unchanged when it has at least 3 dot-separated segments and a
\* non-empty third one, and otherwise fails with the builder's 'Failed to
\* sign JWT' error; there is no other outcome.
C7_CreateReturnsSignedOrFails ==
    (method = "create" /\ IsHexThumbprint(Normalized)) =>
        IF WellSigned(signed)
        THEN jwtResult = Returned(signed)
        ELSE jwtResult = Raised("Error", "sign", None)

\* C9: create validates the thumbprint before anything else; with an invalid
\* thumbprint it fails with the thumbprint error and the signing primitive
\* is never called.
C9_InvalidThumbprintFailsFirst ==
    (method = "create" /\ ~IsHexThumbprint(Normalized)) =>
        /\ jwtResult = Raised("Error", "thumbprint", None)
        /\ signCalls = 0


====
